---- MODULE Spec2Model ----
(***************************************************************************)
(* AFOLI (src/go_continuum/afoli.py): the line-free channel finder of      *)
(* GoContinuum.  The model follows the stages of afoli():                   *)
(*   basic_masking -> sigma_clip -> dilation -> minimum width ->            *)
(*   minimum gap -> continuum, and get_sigma_clip_steps.                    *)
(*                                                                         *)
(* Arrays are functions over 0..N-1, as numpy indexes them.  Intensities   *)
(* are integers and NaN is one value outside them; every comparison that   *)
(* the code makes on floats (mean, standard deviation, sigma multipliers)  *)
(* is made here exactly, on fractions cleared of their denominators.       *)
(* An optional argument is a sequence: << >> is None, <<v>> is the value v. *)
(***************************************************************************)
EXTENDS Integers, Sequences, FiniteSets, TLC

VARIABLES
    pc,          \* position in the function being run
    spectrum,    \* the caller's spectrum (argument `spectrum`)
    called_with, \* history: the caller's spectrum when the call was made
    edges,       \* argument `edges` (`extremes` in afoli)
    flagchans,   \* argument `flagchans`: sequence of <<ch1, ch2>> (<< >> = None)
    invalid_values, \* argument `invalid_values`: << >> = None, <<list>> a list
    censtat,     \* argument `censtat`
    sigma,       \* argument `sigma`: one or two multipliers, each <<num, den>>
    niter,       \* argument `niter` (maxiters of sigma_clip)
    dilate,      \* argument `dilate`
    min_width,   \* argument `min_width`
    min_gap,     \* argument `min_gap`
    mask,        \* spec.mask / specfil.mask, << >> while no array exists
    before,      \* history: the mask before the last stage acted on it
    cont,        \* returned continuum: the fraction num/den
    cstd,        \* returned spread: sqrt(var_num)/den
    i,           \* get_sigma_clip_steps: the iteration count of the next run
    filtered,    \* get_sigma_clip_steps: filtered.mask of the last run
    npoints,     \* get_sigma_clip_steps: the four recorded sequences
    medians,
    means,
    stds,
    raised,      \* the exception that ended the call, "" if none
    ran,         \* history: the masking stages that have run to their end
    slices,      \* group_chans: the returned slices, each <<start, stop>>
    sep,         \* chans_to_casa: argument `sep`
    casa,        \* chans_to_casa: the returned string, character by character
    freq,        \* get_freq_flags: argument `freq`, the frequency axis
    ranges,      \* get_freq_flags: the returned ranges, each twice <<freq1, freq2>>
    chan_file,   \* afoli: argument `chan_file`, << >> = None, <<stem>> a path
    levels,      \* afoli: argument `levels`, << >> = None, <<list>> of <<num, den>>
    files,       \* the files written so far, each a name and its text
    log,         \* the messages reverse_levels logged about its branch
    lev,         \* reverse_levels: the position of the next level in `levels`
    lev_cont,    \* reverse_levels: lev_cont of the last level, num/den
    lev_std,     \* reverse_levels: lev_std of the last level, sqrt(var_num)/den
    lev_mask,    \* reverse_levels: spec.mask of the last level
    returned,    \* afoli: the mask returned, << >> while none is
    line_flags   \* afoli_iter_data: the flags flags_from_file loaded

basic_args == <<spectrum, called_with, edges, flagchans, invalid_values>>
clip_args == <<censtat, sigma, niter>>
refine_args == <<dilate, min_width, min_gap>>
steps_vars == <<i, filtered, npoints, medians, means, stds>>
encode_vars == <<slices, sep, casa, freq, ranges>>
afoli_vars == <<chan_file, levels, files, log, lev, lev_cont, lev_std, lev_mask,
                returned, line_flags>>
vars == <<pc, basic_args, clip_args, refine_args, mask, before, cont, cstd,
          steps_vars, raised, ran, encode_vars, afoli_vars>>

(***************************************************************************)
(* Bounds of the model.                                                    *)
(***************************************************************************)
BasicLen == 4    \* longest spectrum given to basic_masking alone
MaxFlags == 1    \* most channel ranges in `flagchans`
FindLen == 4     \* longest spectrum given to find_continuum
RefineLen == 6   \* longest mask given to the refinement stages alone
MaxDilate == 2   \* largest `dilate` given to the refinement stages
MaxWidth == 3    \* largest `min_width` given to the refinement stages
MaxGap == 3      \* largest `min_gap` given to the refinement stages
StepsLen == 6    \* longest spectrum given to get_sigma_clip_steps
IndexLen == 5    \* longest spectrum of the trajectories whose runs are redone
EncodeLen == 6   \* longest mask given to the region encoder
MaxSpacing == 2  \* largest channel spacing of a frequency axis
MaxSlices == 2   \* most slices given to chans_to_casa alone
CasaChans == 12  \* largest slice end given to chans_to_casa alone
FreqLen == 4     \* longest mask given to get_freq_flags alone
AfoliLen == 4    \* longest spectrum given to afoli

(***************************************************************************)
(* numpy helpers.                                                          *)
(***************************************************************************)
NaN == 999

Size(a) == Cardinality(DOMAIN a)

Chans(n) == 0 .. (n - 1)

None == << >>

\* A Python slice index: negative counts from the end, and it is clipped.
SliceIndex(n, k) ==
    IF k < 0 THEN (IF n + k < 0 THEN 0 ELSE n + k)
    ELSE (IF k > n THEN n ELSE k)

\* a[start:stop] = True on a boolean array.
SetSlice(a, start, stop) ==
    LET n == Size(a)
        lo == SliceIndex(n, start)
        hi == SliceIndex(n, stop)
    IN  [ch \in DOMAIN a |-> a[ch] \/ (lo <= ch /\ ch < hi)]

\* np.ma.masked_invalid: the mask of the non-finite samples.
MaskedInvalid(spec) == [ch \in DOMAIN spec |-> spec[ch] = NaN]

(***************************************************************************)
(* basic_masking                                                           *)
(***************************************************************************)
\* Mutant: the check lets edges = N through.
BasicMaskingRaisesAboveSize(spec, edg) == edg > Size(spec)

\* if edges >= spec.size: raise ValueError
BasicMaskingRaises(spec, edg) == edg >= Size(spec)

\* spec.mask[:edges] = True; spec.mask[-edges:] = True
FilterEdges(m, edg) ==
    IF edg > 0
    THEN SetSlice(SetSlice(m, 0, edg), -edg, Size(m))
    ELSE m

\* Mutant: the end of a range is left out (spec.mask[ch1:ch2] = True).
FlagRangeExclusive(m, flags) == SetSlice(m, flags[1], flags[2])

\* spec.mask[ch1:ch2+1] = True
FlagRange(m, flags) == SetSlice(m, flags[1], flags[2] + 1)

RECURSIVE FlagChannels(_, _)
FlagChannels(m, fchans) ==
    IF fchans = << >> THEN m
    ELSE FlagChannels(FlagRange(m, Head(fchans)), Tail(fchans))

BasicMask(spec, edg, fchans) ==
    FlagChannels(FilterEdges(MaskedInvalid(spec), edg), fchans)

\* for val in invalid_values: spec = np.ma.mask_where(spec == val, spec)
\* numpy.ma has masked_where and no mask_where: the first turn of the loop
\* raises AttributeError.
FlagValuesRaises(values) == values # None /\ Len(values[1]) > 0

BasicMasking ==
    /\ pc = "start"
    /\ IF BasicMaskingRaises(spectrum, edges)
       THEN /\ pc' = "raised"
            /\ raised' = "ValueError"
            /\ UNCHANGED <<mask, ran>>
       ELSE IF FlagValuesRaises(invalid_values)
       THEN /\ pc' = "raised"
            /\ raised' = "AttributeError"
            /\ UNCHANGED <<mask, ran>>
       ELSE /\ pc' = "basic_done"
            /\ mask' = BasicMask(spectrum, edges, flagchans)
            /\ ran' = Append(ran, "basic_masking")
            /\ UNCHANGED raised
    /\ UNCHANGED <<afoli_vars, encode_vars, basic_args, clip_args, refine_args, before, cont, cstd,
                   steps_vars>>

(***************************************************************************)
(* Statistics of the samples of `data` at the channels `keep`.  A sample   *)
(* statistic is kept as integers: Sum/n is the mean, VarNum/n^2 the        *)
(* variance (np.std, ddof = 0), Median2/2 the median.                      *)
(***************************************************************************)
RECURSIVE SumOver(_, _)
SumOver(f, S) ==
    IF S = {} THEN 0
    ELSE LET ch == CHOOSE x \in S : TRUE
         IN  f[ch] + SumOver(f, S \ {ch})

Unmasked(m) == {ch \in DOMAIN m : ~m[ch]}

CountMasked(m) == Cardinality({ch \in DOMAIN m : m[ch]})

Sum(data, keep) == SumOver(data, keep)

SumSq(data, keep) == SumOver([ch \in keep |-> data[ch] * data[ch]], keep)

\* n^2 times the variance
VarNum(data, keep) ==
    LET n == Cardinality(keep)
    IN  n * SumSq(data, keep) - Sum(data, keep) * Sum(data, keep)

\* the k-th smallest sample, k = 1..n
Kth(data, keep, k) ==
    CHOOSE v \in {data[ch] : ch \in keep} :
        /\ Cardinality({ch \in keep : data[ch] < v}) < k
        /\ Cardinality({ch \in keep : data[ch] <= v}) >= k

\* twice the median: the middle sample, or the mean of the two middle ones
Median2(data, keep) ==
    LET n == Cardinality(keep)
    IN  IF n % 2 = 1
        THEN 2 * Kth(data, keep, (n + 1) \div 2)
        ELSE Kth(data, keep, n \div 2) + Kth(data, keep, n \div 2 + 1)

\* linreg_stat on the plain array sigma_clip hands over (the except branch):
\* x = arange(x.size) - x.size/2, and the intercept of the fit, which is
\* ((n^2-1)*Sum + 3*T) / (n*(n^2-1)) with T = sum_k (2k-n+1) y_k.
LinregT(data, keep) ==
    LET n == Cardinality(keep)
        rank(ch) == Cardinality({j \in keep : j < ch})
    IN  SumOver([ch \in keep |-> (2 * rank(ch) - n + 1) * data[ch]], keep)

\* The center c of the samples as P and m with n*c = P/m.
CenterP(data, keep, cen) ==
    LET n == Cardinality(keep)
    IN  CASE cen = "median" -> n * Median2(data, keep)
          [] cen = "mean" -> Sum(data, keep)
          [] cen = "linregress" ->
                (n * n - 1) * Sum(data, keep) + 3 * LinregT(data, keep)

CenterM(keep, cen) ==
    LET n == Cardinality(keep)
    IN  CASE cen = "median" -> 2
          [] cen = "mean" -> 1
          [] cen = "linregress" -> n * n - 1

(***************************************************************************)
(* sigma_clip (astropy.stats), as afoli calls it: a masked array, axis     *)
(* None, a callable cenfunc, the standard deviation as stdfunc.  The       *)
(* samples still in play shrink at every iteration; the mask returned is   *)
(* the input mask plus every channel outside the bounds of the last        *)
(* iteration.                                                              *)
(***************************************************************************)
\* afoli: sigma = (lower, upper), or one value for both
SigmaLower(sig) == sig[1]

SigmaUpper(sig) == IF Len(sig) = 1 THEN sig[1] ELSE sig[2]

\* scipy's linregress refuses empty input.
CenfuncRaises(keep, cen) == cen = "linregress" /\ keep = {}

\* The center (and so both bounds) is NaN: no sample, or a regression
\* through one sample.
CenfuncNaN(keep, cen) ==
    \/ keep = {}
    \/ cen = "linregress" /\ Cardinality(keep) = 1

NoBounds == [nan |-> TRUE, P |-> 0, m |-> 1, v |-> 0, n |-> 0]

\* _compute_bounds: center - sigma_lower*std, center + sigma_upper*std
ComputeBounds(data, keep, cen) ==
    IF CenfuncNaN(keep, cen) THEN NoBounds
    ELSE [nan |-> FALSE,
          P |-> CenterP(data, keep, cen),
          m |-> CenterM(keep, cen),
          v |-> VarNum(data, keep),
          n |-> Cardinality(keep)]

\* x < min_value: n*(x - c) = d/m below -(lo)*sqrt(v)
Below(x, b, lo) ==
    LET d == b.n * x * b.m - b.P
    IN  /\ ~b.nan
        /\ x # NaN
        /\ d < 0
        /\ (lo[2] * d) * (lo[2] * d) > (lo[1] * b.m) * (lo[1] * b.m) * b.v

\* x > max_value
Above(x, b, up) ==
    LET d == b.n * x * b.m - b.P
    IN  /\ ~b.nan
        /\ x # NaN
        /\ d > 0
        /\ (up[2] * d) * (up[2] * d) > (up[1] * b.m) * (up[1] * b.m) * b.v

\* (filtered_data >= min_value) & (filtered_data <= max_value)
Within(x, b, sig) ==
    /\ ~b.nan
    /\ ~Below(x, b, SigmaLower(sig))
    /\ ~Above(x, b, SigmaUpper(sig))

\* while nchanged != 0 and iteration < maxiters
RECURSIVE ClipLoop(_, _, _, _, _, _, _, _)
ClipLoop(data, keep, iteration, nchanged, b, maxiters, cen, sig) ==
    IF nchanged = 0 \/ (maxiters # None /\ iteration >= maxiters[1])
    THEN [raised |-> FALSE, bounds |-> b, niterations |-> iteration]
    ELSE IF CenfuncRaises(keep, cen)
    THEN [raised |-> TRUE, bounds |-> b, niterations |-> iteration + 1]
    ELSE LET nb == ComputeBounds(data, keep, cen)
             kept == {ch \in keep : Within(data[ch], nb, sig)}
         IN  ClipLoop(data, kept, iteration + 1,
                      Cardinality(keep) - Cardinality(kept),
                      nb, maxiters, cen, sig)

\* filtered_data.mask |= (data < min_value) | (data > max_value)
ClipMask(data, m, b, sig) ==
    [ch \in DOMAIN m |->
        \/ m[ch]
        \/ Below(data[ch], b, SigmaLower(sig))
        \/ Above(data[ch], b, SigmaUpper(sig))]

SigmaClip(data, m, sig, cen, maxiters) ==
    IF \A ch \in DOMAIN m : m[ch]
    THEN [raised |-> FALSE, mask |-> m, bounds |-> NoBounds,
          niterations |-> 0]
    ELSE LET r == ClipLoop(data, Unmasked(m), 0, 1, NoBounds, maxiters,
                           cen, sig)
         IN  [raised |-> r.raised,
              mask |-> IF r.raised THEN m
                       ELSE ClipMask(data, m, r.bounds, sig),
              bounds |-> r.bounds,
              niterations |-> r.niterations]

(***************************************************************************)
(* find_continuum, after basic_masking                                     *)
(***************************************************************************)
\* specfil = sigma_clip(spec, **sigmaclip_pars)
FilterData ==
    /\ pc = "basic_done"
    /\ LET r == SigmaClip(spectrum, mask, sigma, censtat, niter)
       IN  IF r.raised
           THEN /\ pc' = "raised"
                /\ raised' = "ValueError"
                /\ mask' = None
                /\ UNCHANGED <<before, ran>>
           ELSE /\ pc' = "clip_done"
                /\ mask' = r.mask
                /\ before' = mask
                /\ ran' = Append(ran, "sigma_clip")
                /\ UNCHANGED raised
    /\ UNCHANGED <<afoli_vars, encode_vars, basic_args, clip_args, refine_args, cont, cstd, steps_vars>>

\* Mutant: a pass that grows the bands on one side only.
DilationOneSided(m) ==
    [ch \in DOMAIN m |-> m[ch] \/ (ch - 1 \in DOMAIN m /\ m[ch - 1])]

\* One pass of ndi.binary_dilation with the default structure.
Dilation(m) ==
    [ch \in DOMAIN m |->
        \/ m[ch]
        \/ (ch - 1 \in DOMAIN m /\ m[ch - 1])
        \/ (ch + 1 \in DOMAIN m /\ m[ch + 1])]

\* Mutant: one pass, whatever `iterations` is.
BinaryDilationOnce(m, iterations) ==
    IF iterations <= 0 THEN m ELSE Dilation(m)

\* ndi.binary_dilation(mask, iterations=dilate)
RECURSIVE BinaryDilation(_, _)
BinaryDilation(m, iterations) ==
    IF iterations <= 0 THEN m
    ELSE BinaryDilation(Dilation(m), iterations - 1)

\* if dilate >= specfil.data.size/2: raise ValueError
DilateRaises(m, dil) == 2 * dil >= Size(m)

DilateMask ==
    /\ UNCHANGED ran
    /\ pc = "clip_done"
    /\ IF DilateRaises(mask, dilate)
       THEN /\ pc' = "raised"
            /\ raised' = "ValueError"
            /\ mask' = None
            /\ UNCHANGED before
       ELSE /\ pc' = "dilate_done"
            /\ mask' = IF dilate > 0 THEN BinaryDilation(mask, dilate) ELSE mask
            /\ before' = mask
            /\ UNCHANGED raised
    /\ UNCHANGED <<afoli_vars, encode_vars, basic_args, clip_args, refine_args, cont, cstd, steps_vars>>

\* The dilation sub-step (if dilate > 0: specfil.mask = binary_dilation)
\* applied once more to the mask it produced
DilateAgain ==
    /\ pc = "dilate_done"
    /\ pc' = "dilated_again"
    /\ mask' = IF dilate > 0 THEN BinaryDilation(mask, dilate) ELSE mask
    /\ before' = mask
    /\ UNCHANGED <<afoli_vars, encode_vars, basic_args, clip_args, refine_args,
                   cont, cstd, steps_vars, raised, ran>>

\* labels, *_ = ndi.label(mask): the bands numbered from 1, 0 elsewhere
Label(m) ==
    [ch \in DOMAIN m |->
        IF m[ch]
        THEN Cardinality({c \in DOMAIN m :
                 c <= ch /\ m[c] /\ (c - 1 \notin DOMAIN m \/ ~m[c - 1])})
        ELSE 0]

\* np.bincount(labels.ravel())
Bincount(labels) ==
    [l \in {labels[ch] : ch \in DOMAIN labels} |->
        Cardinality({ch \in DOMAIN labels : labels[ch] = l})]

\* Mutant: only the bands narrower than min_width are removed.
FilterMinWidthStrict(m, width) ==
    IF \A ch \in DOMAIN m : m[ch] THEN m
    ELSE LET labels == Label(m)
             component_sizes == Bincount(labels)
         IN  [ch \in DOMAIN m |->
                 IF component_sizes[labels[ch]] < width THEN FALSE ELSE m[ch]]

\* filter_min_width(mask, min_width)
FilterMinWidth(m, width) ==
    IF \A ch \in DOMAIN m : m[ch] THEN m
    ELSE LET labels == Label(m)
             component_sizes == Bincount(labels)
             small_mask == [ch \in DOMAIN m |->
                               component_sizes[labels[ch]] <= width]
         IN  [ch \in DOMAIN m |-> IF small_mask[ch] THEN FALSE ELSE m[ch]]

FilterSmallBands ==
    /\ UNCHANGED ran
    /\ pc = "dilate_done"
    /\ pc' = "width_done"
    /\ mask' = IF min_width > 0 THEN FilterMinWidth(mask, min_width) ELSE mask
    /\ before' = mask
    /\ UNCHANGED <<afoli_vars, encode_vars, basic_args, clip_args, refine_args, cont, cstd, steps_vars,
                   raised>>

\* ind[specfil.mask]: the masked channels in ascending order
RECURSIVE Ascending(_)
Ascending(S) ==
    IF S = {} THEN << >>
    ELSE LET lo == CHOOSE x \in S : \A y \in S : x <= y
         IN  <<lo>> \o Ascending(S \ {lo})

MaskedInd(m) == Ascending({ch \in DOMAIN m : m[ch]})

\* Mutant: a gap of exactly min_gap channels already splits the groups.
SmallBandsAtGap(ind, gap) ==
    {k \in 2 .. Len(ind) : ind[k] - ind[k - 1] > gap}

\* np.where(np.diff(ind[mask]) > min_gap+1)[0] + 1: the positions (from 1
\* here) at which np.split starts a new group
SmallBands(ind, gap) ==
    {k \in 2 .. Len(ind) : ind[k] - ind[k - 1] > gap + 1}

\* np.split(ind[mask], small_bands): each group as its first and last
\* position in ind
Groups(ind, small_bands) ==
    LET starts == IF Len(ind) = 0 THEN {} ELSE {1} \cup small_bands
        stop(s) == IF \E k \in small_bands : k > s
                   THEN (CHOOSE k \in small_bands :
                            k > s /\ \A j \in small_bands : j > s => k <= j) - 1
                   ELSE Len(ind)
    IN  {<<s, stop(s)>> : s \in starts}

\* for group in groups: if len(group) > 1: mask[group[0]:group[-1]] = True
MaskGaps(m, gap) ==
    LET ind == MaskedInd(m)
        groups == Groups(ind, SmallBands(ind, gap))
    IN  [ch \in DOMAIN m |->
            \/ m[ch]
            \/ \E g \in groups :
                  /\ g[2] - g[1] + 1 > 1
                  /\ SetSlice(m, ind[g[1]], ind[g[2]])[ch]]

FilterConsecutive ==
    /\ UNCHANGED ran
    /\ pc = "width_done"
    /\ pc' = "gap_done"
    /\ mask' = IF min_gap # None /\ min_gap[1] > 1
               THEN MaskGaps(mask, min_gap[1])
               ELSE mask
    /\ before' = mask
    /\ UNCHANGED <<afoli_vars, encode_vars, basic_args, clip_args, refine_args, cont, cstd, steps_vars,
                   raised>>

\* The width filter (if min_width > 0: filter_min_width) applied once more
\* to the mask that the width and gap filters produced
FilterSmallBandsAgain ==
    /\ pc = "gap_done"
    /\ pc' = "width_again"
    /\ mask' = IF min_width > 0 THEN FilterMinWidth(mask, min_width) ELSE mask
    /\ before' = mask
    /\ UNCHANGED <<afoli_vars, encode_vars, basic_args, clip_args, refine_args,
                   cont, cstd, steps_vars, raised, ran>>

\* The gap filter (if min_gap is not None and min_gap > 1) applied after it;
\* `before` keeps the mask the first pass of the two filters produced
FilterConsecutiveAgain ==
    /\ pc = "width_again"
    /\ pc' = "gap_again"
    /\ mask' = IF min_gap # None /\ min_gap[1] > 1
               THEN MaskGaps(mask, min_gap[1])
               ELSE mask
    /\ UNCHANGED <<afoli_vars, encode_vars, basic_args, clip_args, refine_args,
                   before, cont, cstd, steps_vars, raised, ran>>

\* np.ma.median: num/den
MaMedian(data, m) ==
    IF Unmasked(m) = {} THEN [num |-> 0, den |-> 0]
    ELSE [num |-> Median2(data, Unmasked(m)), den |-> 2]

\* Mutant: the median is returned where the mean is asked for.
MaMeanByMedian(data, m) == MaMedian(data, m)

\* np.ma.mean: num/den, den = 0 when every sample is masked
MaMean(data, m) ==
    [num |-> Sum(data, Unmasked(m)), den |-> Cardinality(Unmasked(m))]

\* np.ma.std: sqrt(var_num)/den
MaStd(data, m) ==
    [var_num |-> VarNum(data, Unmasked(m)), den |-> Cardinality(Unmasked(m))]

\* cont = np.ma.mean(specfil); cstd = np.ma.std(specfil); return
Continuum ==
    /\ UNCHANGED ran
    /\ pc = "gap_done"
    /\ pc' = "fc_done"
    /\ cont' = MaMean(spectrum, mask)
    /\ cstd' = MaStd(spectrum, mask)
    /\ UNCHANGED <<afoli_vars, encode_vars, basic_args, clip_args, refine_args, mask, before,
                   steps_vars, raised>>

(***************************************************************************)
(* get_sigma_clip_steps, on the output of basic_masking                    *)
(***************************************************************************)
\* Mutant: the sweep starts at maxiters = 2.
StepsInitialFromTwo ==
    /\ UNCHANGED ran
    /\ pc = "basic_done"
    /\ pc' = "steps"
    /\ means' = <<MaMean(spectrum, mask)>>
    /\ medians' = <<MaMedian(spectrum, mask)>>
    /\ stds' = <<MaStd(spectrum, mask)>>
    /\ npoints' = <<Cardinality(Unmasked(mask))>>
    /\ i' = 2
    /\ filtered' = mask
    /\ UNCHANGED <<afoli_vars, encode_vars, basic_args, clip_args, refine_args,
                   mask, before, cont, cstd, raised>>

\* Initial values; i = 1
StepsInitial ==
    /\ UNCHANGED ran
    /\ pc = "basic_done"
    /\ pc' = "steps"
    /\ means' = <<MaMean(spectrum, mask)>>
    /\ medians' = <<MaMedian(spectrum, mask)>>
    /\ stds' = <<MaStd(spectrum, mask)>>
    /\ npoints' = <<Cardinality(Unmasked(mask))>>
    /\ i' = 1
    /\ filtered' = mask
    /\ UNCHANGED <<afoli_vars, encode_vars, basic_args, clip_args, refine_args, mask, before, cont,
                   cstd, raised>>

\* One turn of the while loop: sigma_clip with maxiters = i
StepsRun ==
    /\ UNCHANGED ran
    /\ pc = "steps"
    /\ LET r == SigmaClip(spectrum, mask, sigma, censtat, <<i>>)
           npoint == Cardinality(Unmasked(r.mask))
       IN  IF r.raised
           THEN /\ pc' = "raised"
                /\ raised' = "ValueError"
                /\ UNCHANGED steps_vars
           ELSE IF npoints[Len(npoints)] # npoint
           THEN /\ npoints' = Append(npoints, npoint)
                /\ means' = Append(means, MaMean(spectrum, r.mask))
                /\ medians' = Append(medians, MaMedian(spectrum, r.mask))
                /\ stds' = Append(stds, MaStd(spectrum, r.mask))
                /\ filtered' = r.mask
                /\ i' = i + 1
                /\ UNCHANGED <<pc, raised>>
           ELSE /\ pc' = "steps_done"
                /\ filtered' = r.mask
                /\ UNCHANGED <<i, npoints, means, medians, stds, raised>>
    /\ UNCHANGED <<afoli_vars, encode_vars, basic_args, clip_args, refine_args, mask, before, cont,
                   cstd>>

(***************************************************************************)
(* The region encoder: group_chans, chans_to_casa, get_freq_flags          *)
(***************************************************************************)
\* _ezclump: idx = (mask[1:] ^ mask[:-1]).nonzero()[0] + 1
ClumpIdx(m) == Ascending({k \in DOMAIN m : k >= 1 /\ m[k] # m[k - 1]})

\* Mutant: the band that reaches the last channel is not appended.
ClumpMaskedNoTail(m) ==
    LET n == Size(m)
        idx == ClumpIdx(m)
    IN  IF m[0]
        THEN IF Len(idx) = 0 THEN <<<<0, n>>>>
             ELSE <<<<0, idx[1]>>>> \o
                  [j \in 1 .. ((Len(idx) - 1) \div 2) |->
                      <<idx[2 * j], idx[2 * j + 1]>>]
        ELSE [j \in 1 .. (Len(idx) \div 2) |-> <<idx[2 * j - 1], idx[2 * j]>>]

\* Mutant: one slice from the first masked channel to the last.
ClumpMaskedSpan(m) ==
    LET ind == MaskedInd(m)
    IN  IF Len(ind) = 0 THEN << >>
        ELSE <<<<ind[1], ind[Len(ind)] + 1>>>>

\* np.ma.clump_masked(array) -> _ezclump(mask): the slices <<start, stop>>
ClumpMasked(m) ==
    LET n == Size(m)
        idx == ClumpIdx(m)
        tail == IF m[n - 1] THEN <<<<idx[Len(idx)], n>>>> ELSE << >>
    IN  IF m[0]
        THEN IF Len(idx) = 0 THEN <<<<0, n>>>>
             ELSE <<<<0, idx[1]>>>> \o
                  [j \in 1 .. ((Len(idx) - 1) \div 2) |->
                      <<idx[2 * j], idx[2 * j + 1]>>] \o tail
        ELSE IF Len(idx) = 0 THEN << >>
             ELSE [j \in 1 .. (Len(idx) \div 2) |->
                      <<idx[2 * j - 1], idx[2 * j]>>] \o tail

\* group_chans(array)
GroupChans ==
    /\ pc = "encode"
    /\ pc' = "grouped"
    /\ slices' = ClumpMasked(mask)
    /\ UNCHANGED <<afoli_vars, basic_args, clip_args, refine_args, mask, before, cont,
                   cstd, steps_vars, raised, ran, sep, casa, freq, ranges>>

Digits == <<"0", "1", "2", "3", "4", "5", "6", "7", "8", "9">>

\* f'{start}': the decimal digits of a channel number
RECURSIVE Str(_)
Str(n) ==
    IF n < 10 THEN <<Digits[n + 1]>>
    ELSE Str(n \div 10) \o <<Digits[(n % 10) + 1]>>

\* Mutant: the end of a range is written as slc.stop.
CasaRangeStop(slc) ==
    LET start == slc[1]
        stop == slc[2]
    IN  IF start = stop THEN Str(start)
        ELSE Str(start) \o <<"~">> \o Str(stop)

\* start = slc.start; stop = slc.stop - 1; f'{start}' or f'{start}~{stop}'
CasaRange(slc) ==
    LET start == slc[1]
        stop == slc[2] - 1
    IN  IF start = stop THEN Str(start)
        ELSE Str(start) \o <<"~">> \o Str(stop)

\* sep.join(ranges)
RECURSIVE Join(_, _)
Join(s, parts) ==
    IF Len(parts) = 0 THEN << >>
    ELSE IF Len(parts) = 1 THEN parts[1]
    ELSE parts[1] \o <<s>> \o Join(s, Tail(parts))

\* chans_to_casa(chan_slices, sep)
ChansToCasa ==
    /\ pc = "grouped"
    /\ pc' = "casa_done"
    /\ casa' = Join(sep, [k \in 1 .. Len(slices) |-> CasaRange(slices[k])])
    /\ UNCHANGED <<afoli_vars, basic_args, clip_args, refine_args, mask, before, cont,
                   cstd, steps_vars, raised, ran, slices, sep, freq, ranges>>

\* the pieces of a string between the separators s (str.split)
RECURSIVE Split(_, _)
Split(str, s) ==
    IF \A k \in 1 .. Len(str) : str[k] # s THEN <<str>>
    ELSE LET at == CHOOSE k \in 1 .. Len(str) :
                       str[k] = s /\ \A j \in 1 .. (k - 1) : str[j] # s
         IN  <<SubSeq(str, 1, at - 1)>> \o
             Split(SubSeq(str, at + 1, Len(str)), s)

\* the number a numeral stands for
RECURSIVE Value(_)
Value(str) ==
    IF Len(str) = 0 THEN 0
    ELSE 10 * Value(SubSeq(str, 1, Len(str) - 1))
         + (CHOOSE d \in 0 .. 9 : Digits[d + 1] = str[Len(str)])

\* int(x.strip()) raises ValueError unless x is a string of decimal digits
\* (the strings here hold digits, '~' and separators only)
IntRaises(str) ==
    \/ Len(str) = 0
    \/ \E k \in 1 .. Len(str) : \A d \in 1 .. 10 : str[k] # Digits[d]

\* ch1, ch2 = map(lambda x: int(x.strip()), flags.split('~')) raises
\* ValueError unless flags has two pieces and both are integers
FlagsRaise(flags) ==
    LET ends == Split(flags, "~")
    IN  \/ Len(ends) # 2
        \/ \E k \in 1 .. Len(ends) : IntRaises(ends[k])

\* the pair ch1, ch2 of one entry
FlagsPair(flags) ==
    LET ends == Split(flags, "~")
    IN  <<Value(ends[1]), Value(ends[2])>>

\* separator: str = ','
FlagSeparator == ","

\* for flags in flagchans.split(separator): ...: the mask after the loop, or
\* None when an entry raises
RECURSIVE FlagText(_, _)
FlagText(m, entries) ==
    IF entries = << >> THEN m
    ELSE IF FlagsRaise(Head(entries)) THEN None
    ELSE FlagText(FlagRange(m, FlagsPair(Head(entries))), Tail(entries))

\* basic_masking(spectrum, edges, flagchans=casa): the string written by
\* chans_to_casa is given back as the explicit ranges; `before` keeps the
\* mask that was encoded
BasicMaskingText ==
    /\ pc = "casa_done"
    /\ LET flagged == IF BasicMaskingRaises(spectrum, edges) THEN None
                      ELSE FlagText(FilterEdges(MaskedInvalid(spectrum), edges),
                                    Split(casa, FlagSeparator))
       IN  IF flagged = None
           THEN /\ pc' = "raised"
                /\ raised' = "ValueError"
                /\ mask' = None
                /\ UNCHANGED ran
           ELSE /\ pc' = "basic_done"
                /\ mask' = flagged
                /\ ran' = Append(ran, "basic_masking")
                /\ UNCHANGED raised
    /\ before' = mask
    /\ UNCHANGED <<afoli_vars, encode_vars, basic_args, clip_args, refine_args,
                   cont, cstd, steps_vars>>

Abs(x) == IF x < 0 THEN -x ELSE x

Min(a, b) == IF a <= b THEN a ELSE b

Max(a, b) == IF a >= b THEN a ELSE b

\* delta = np.abs(freq[0] - freq[1]) / 2, kept as twice its value
Delta2(fr) == Abs(fr[0] - fr[1])

\* Mutant: the pair is (freq[start] - delta, freq[stop - 1] + delta).
FreqRangeUnordered(fr, slc) ==
    <<2 * fr[slc[1]] - Delta2(fr), 2 * fr[slc[2] - 1] + Delta2(fr)>>

\* freq1 = np.min(freq_ran) - delta; freq2 = np.max(freq_ran) + delta,
\* both kept as twice their value
FreqRange(fr, slc) ==
    LET first == fr[slc[1]]
        last == fr[slc[2] - 1]
    IN  <<2 * Min(first, last) - Delta2(fr), 2 * Max(first, last) + Delta2(fr)>>

\* freq[1], freq[slc.start] or freq[slc.stop - 1] is past the end of the
\* axis: IndexError
FreqIndexRaises(fr, slcs) ==
    \/ Size(fr) < 2
    \/ \E k \in 1 .. Len(slcs) :
          slcs[k][1] >= Size(fr) \/ slcs[k][2] - 1 >= Size(fr)

\* get_freq_flags(freq, spectrum)
GetFreqFlags ==
    /\ pc = "encode"
    /\ IF FreqIndexRaises(freq, ClumpMasked(mask))
       THEN /\ pc' = "raised"
            /\ raised' = "IndexError"
            /\ UNCHANGED <<slices, ranges>>
       ELSE /\ pc' = "freq_done"
            /\ slices' = ClumpMasked(mask)
            /\ ranges' = [k \in 1 .. Len(ClumpMasked(mask)) |->
                             FreqRange(freq, ClumpMasked(mask)[k])]
            /\ UNCHANGED raised
    /\ UNCHANGED <<afoli_vars, basic_args, clip_args, refine_args, mask, before, cont,
                   cstd, steps_vars, ran, sep, casa, freq>>

(***************************************************************************)
(* The frequency flags file: write_casa_freqs, and flags_from_file when    *)
(* afoli_iter_data resumes.  A frequency is kept as twice its value in     *)
(* GHz; the axes of the model have whole values, so that a bound has at    *)
(* most one decimal and the ten decimals of the format hold it exactly.    *)
(***************************************************************************)
\* f'{x:.10f}' of the value x2 / 2
Fixed10(x2) ==
    (IF x2 < 0 THEN <<"-">> ELSE << >>)
        \o Str(Abs(x2) \div 2) \o <<".">>
        \o <<IF Abs(x2) % 2 = 1 THEN "5" ELSE "0">>
        \o <<"0", "0", "0", "0", "0", "0", "0", "0", "0">>

\* f'{freq1.value:.10f}~{freq2.value:.10f}{freq2.unit}', the unit one token
FreqLine(r) ==
    Fixed10(r[1]) \o <<"~">> \o Fixed10(r[2]) \o <<"GHz">>

\* freqs_to_casa(freq_ranges), sep = '\n'
FreqsToCasa(rs) == Join("\n", [k \in 1 .. Len(rs) |-> FreqLine(rs[k])])

\* the image's frequency flags file
freq_flags_file == "line_freq_flags.txt"

\* One turn of afoli_iter_data's loop on an image without a flags file:
\* line_flags[...] = get_freq_flags(freq, masked_spec), then
\* write_casa_freqs(line_flags[...], freq_flags_file)
IterData ==
    /\ pc = "encode"
    /\ \A f \in files : f.name # freq_flags_file
    /\ IF FreqIndexRaises(freq, ClumpMasked(mask))
       THEN /\ pc' = "raised"
            /\ raised' = "IndexError"
            /\ UNCHANGED <<slices, ranges, files>>
       ELSE LET flags == [k \in 1 .. Len(ClumpMasked(mask)) |->
                            FreqRange(freq, ClumpMasked(mask)[k])]
            IN  /\ pc' = "written"
                /\ slices' = ClumpMasked(mask)
                /\ ranges' = flags
                /\ files' = files \cup {[name |-> freq_flags_file,
                                         text |-> FreqsToCasa(flags)]}
                /\ UNCHANGED raised
    /\ UNCHANGED <<line_flags, chan_file, levels, log, lev, lev_cont, lev_std,
                   lev_mask, returned, basic_args, clip_args, refine_args,
                   mask, before, cont, cstd, steps_vars, ran, sep, casa, freq>>

\* the string without a leading '-'
Unsigned(str) == IF Len(str) > 0 /\ str[1] = "-" THEN Tail(str) ELSE str

\* float(str) raises ValueError unless str is [-]digits[.digits] with a
\* digit in it
FloatRaises(str) ==
    LET parts == Split(Unsigned(str), ".")
    IN  \/ Len(parts) > 2
        \/ \A k \in 1 .. Len(parts) : Len(parts[k]) = 0
        \/ \E k \in 1 .. Len(parts) :
              Len(parts[k]) > 0 /\ IntRaises(parts[k])

\* the decimals without their trailing zeros
RECURSIVE StripZeros(_)
StripZeros(str) ==
    IF Len(str) > 0 /\ str[Len(str)] = "0"
    THEN StripZeros(SubSeq(str, 1, Len(str) - 1))
    ELSE str

RECURSIVE Pow10(_)
Pow10(n) == IF n = 0 THEN 1 ELSE 10 * Pow10(n - 1)

\* float(str), as twice its value
Float2(str) ==
    LET parts == Split(Unsigned(str), ".")
        dec == IF Len(parts) = 2 THEN StripZeros(parts[2]) ELSE << >>
        whole == 2 * Value(parts[1]) + (2 * Value(dec)) \div Pow10(Len(dec))
    IN  IF Len(str) > 0 /\ str[1] = "-" THEN -whole ELSE whole

\* the unit at the end of a quantity string, "" if there is none
UnitOf(str) ==
    IF Len(str) > 0 /\ str[Len(str)] = "GHz" THEN "GHz" ELSE ""

\* the number in front of the unit
NumberOf(str) ==
    IF UnitOf(str) = "" THEN str ELSE SubSeq(str, 1, Len(str) - 1)

\* initial, final = line.split('~'); final = u.Quantity(final);
\* initial = float(initial) * final.unit: raises unless the line has two
\* pieces and both hold a number
LineRaises(line) ==
    LET ends == Split(line, "~")
    IN  \/ Len(ends) # 2
        \/ FloatRaises(NumberOf(ends[2]))
        \/ FloatRaises(ends[1])

\* the flag (initial, final) of a line: twice each value, and the unit
LineFlag(line) ==
    LET ends == Split(line, "~")
    IN  <<Float2(ends[1]), Float2(NumberOf(ends[2])), UnitOf(ends[2])>>

\* flags_from_file(filename): lines.split('\n'), one flag a line
FlagsFromFile(text) ==
    LET lines == Split(text, "\n")
    IN  [k \in 1 .. Len(lines) |-> LineFlag(lines[k])]

FlagsFromFileRaises(text) ==
    \E k \in 1 .. Len(Split(text, "\n")) : LineRaises(Split(text, "\n")[k])

\* One turn of afoli_iter_data's loop with resume=True on an image whose
\* flags file exists: line_flags[...] = flags_from_file(freq_flags_file)
IterDataResume ==
    /\ pc = "written"
    /\ \E f \in files :
          /\ f.name = freq_flags_file
          /\ IF FlagsFromFileRaises(f.text)
             THEN /\ pc' = "raised"
                  /\ raised' = "ValueError"
                  /\ UNCHANGED line_flags
             ELSE /\ pc' = "resumed"
                  /\ line_flags' = FlagsFromFile(f.text)
                  /\ UNCHANGED raised
    /\ UNCHANGED <<chan_file, levels, files, log, lev, lev_cont, lev_std,
                   lev_mask, returned, encode_vars, basic_args, clip_args,
                   refine_args, mask, before, cont, cstd, steps_vars, ran>>

(***************************************************************************)
(* Inputs                                                                  *)
(***************************************************************************)
Arrays(maxlen, values) == UNION {[Chans(n) -> values] : n \in 1 .. maxlen}

\* flagchans: up to MaxFlags ranges ch1~ch2 with ch1 <= ch2
FlagRanges(maxlen) ==
    {<<ch1, ch2>> : ch1 \in Chans(maxlen), ch2 \in Chans(maxlen)}
        \cap {r \in Chans(maxlen) \X Chans(maxlen) : r[1] <= r[2]}

FlagLists(maxlen) ==
    UNION {[1 .. k -> FlagRanges(maxlen)] : k \in 0 .. MaxFlags}

\* sigma: afoli's default (3.0, 1.3), and the single value 1.0
DefaultSigma == <<<<3, 1>>, <<13, 10>>>>

Sigmas == {DefaultSigma, <<<<1, 1>>>>}

Censtats == {"median", "mean", "linregress"}

\* chans_to_casa: sep, ';' by default
Separators == {";", ","}

\* the first frequency of an axis
AxisStarts == {0, 7}

NoValue == [num |-> 0, den |-> 0]

NoSpread == [var_num |-> 0, den |-> 0]

Defaults ==
    /\ censtat = "median"
    /\ sigma = DefaultSigma
    /\ niter = None
    /\ dilate = 0
    /\ min_width = 0
    /\ min_gap = None

Fresh ==
    /\ before = None
    /\ cont = NoValue
    /\ cstd = NoSpread
    /\ i = 0
    /\ filtered = None
    /\ npoints = << >>
    /\ medians = << >>
    /\ means = << >>
    /\ stds = << >>
    /\ raised = ""
    /\ ran = << >>

NoEncoding ==
    /\ slices = << >>
    /\ sep = ";"
    /\ casa = << >>
    /\ freq = << >>
    /\ ranges = << >>

(***************************************************************************)
(* afoli: the checks of its arguments, find_continuum (the stages above),  *)
(* the clipping trajectory, the channel file and the levels.               *)
(***************************************************************************)
\* else: raise NotImplementedError(f'Censtat {censtat} not implemented')
CenstatRaises(cen) == cen \notin {"median", "linregress", "mean"}

\* Mutant: a sigma of three values is let through.
SigmaRaisesAboveThree(sig) == Len(sig) \notin {1, 2, 3}

\* len(sigma) is neither 1 nor 2: raise ValueError
SigmaRaises(sig) == Len(sig) \notin {1, 2}

\* The preprocessing of the sigma_clip options, before any stage is called
Afoli ==
    /\ pc = "afoli"
    /\ IF CenstatRaises(censtat)
       THEN /\ pc' = "raised"
            /\ raised' = "NotImplementedError"
       ELSE IF SigmaRaises(sigma)
       THEN /\ pc' = "raised"
            /\ raised' = "ValueError"
       ELSE /\ pc' = "start"
            /\ UNCHANGED raised
    /\ UNCHANGED <<afoli_vars, encode_vars, basic_args, clip_args,
                   refine_args, mask, before, cont, cstd, steps_vars, ran>>

\* The while loop of get_sigma_clip_steps from the run with maxiters = k on
RECURSIVE StepsLoop(_, _, _, _, _, _)
StepsLoop(data, m, sig, cen, k, acc) ==
    LET r == SigmaClip(data, m, sig, cen, <<k>>)
        npoint == Cardinality(Unmasked(r.mask))
    IN  IF r.raised THEN [acc EXCEPT !.raised = TRUE]
        ELSE IF acc.npoints[Len(acc.npoints)] # npoint
        THEN StepsLoop(data, m, sig, cen, k + 1,
                       [raised |-> FALSE,
                        npoints |-> Append(acc.npoints, npoint),
                        medians |-> Append(acc.medians, MaMedian(data, r.mask)),
                        means |-> Append(acc.means, MaMean(data, r.mask)),
                        stds |-> Append(acc.stds, MaStd(data, r.mask))])
        ELSE acc

\* get_sigma_clip_steps(spec, **sigmaclip_pars) as one call
SigmaClipSteps(data, m, sig, cen) ==
    StepsLoop(data, m, sig, cen, 1,
              [raised |-> FALSE,
               npoints |-> <<Cardinality(Unmasked(m))>>,
               medians |-> <<MaMedian(data, m)>>,
               means |-> <<MaMean(data, m)>>,
               stds |-> <<MaStd(data, m)>>])

\* scpoints, scmedians, scmeans, scstds = get_sigma_clip_steps(
\*     basic_masking(spectrum, **basic_mask_pars), **sigmaclip_pars)
AfoliSteps ==
    /\ pc = "fc_done"
    /\ LET r == SigmaClipSteps(spectrum,
                               BasicMask(spectrum, edges, flagchans),
                               sigma, censtat)
       IN  IF r.raised
           THEN /\ pc' = "raised"
                /\ raised' = "ValueError"
                /\ UNCHANGED <<npoints, medians, means, stds>>
           ELSE /\ pc' = "steps_returned"
                /\ npoints' = r.npoints
                /\ medians' = r.medians
                /\ means' = r.means
                /\ stds' = r.stds
                /\ UNCHANGED raised
    /\ ran' = Append(ran, "basic_masking")
    /\ UNCHANGED <<afoli_vars, encode_vars, basic_args, clip_args,
                   refine_args, mask, before, cont, cstd, i, filtered>>

\* chans_to_casa with the default separator
CasaText(slcs) == Join(";", [k \in 1 .. Len(slcs) |-> CasaRange(slcs[k])])

\* chan_slices = group_chans(filtered); write_casa_chans if chan_file
AfoliChans ==
    /\ pc = "steps_returned"
    /\ pc' = "chans_done"
    /\ slices' = ClumpMasked(mask)
    /\ files' = IF chan_file # None
                THEN files \cup {[name |-> chan_file,
                                  text |-> CasaText(ClumpMasked(mask))]}
                ELSE files
    /\ lev' = 1
    /\ UNCHANGED <<line_flags, chan_file, levels, log, lev_cont, lev_std, lev_mask,
                   returned, sep, casa, freq, ranges, basic_args, clip_args,
                   refine_args, mask, before, cont, cstd, steps_vars, raised,
                   ran>>

Sign(x) == IF x > 0 THEN 1 ELSE IF x < 0 THEN -1 ELSE 0

\* 1 + level as a fraction over level[2]
OnePlus(level) == level[2] + level[1]

\* What kind of float means[k] / continuum is: the division by 0.0 gives
\* nan for 0/0 and an infinity otherwise.
NormKind(mean, continuum) ==
    IF continuum.num # 0 THEN "finite"
    ELSE IF mean.num = 0 THEN "nan"
    ELSE IF mean.num > 0 THEN "inf"
    ELSE "-inf"

\* means_norm[k] - (1 + level), cleared of its (positive) denominators
\* but for the sign of the continuum
NormCentNum(mean, continuum, level) ==
    mean.num * continuum.den * level[2]
        - OnePlus(level) * continuum.num * mean.den

\* means_norm_cent: the sign of means_norm[k] - (1 + level)
NormCent(mean, continuum, level) ==
    CASE NormKind(mean, continuum) = "inf" -> 1
      [] NormKind(mean, continuum) = "-inf" -> -1
      [] NormKind(mean, continuum) = "nan" -> 0
      [] NormKind(mean, continuum) = "finite" ->
            Sign(continuum.num) * Sign(NormCentNum(mean, continuum, level))

AnyNaN(ms, continuum) ==
    \E k \in 1 .. Len(ms) : NormKind(ms[k], continuum) = "nan"

\* Mutant: the ends of the range count as inside it.
InRangeClosed(ms, continuum, level) ==
    /\ ~AnyNaN(ms, continuum)
    /\ \E k \in 1 .. Len(ms) : NormCent(ms[k], continuum, level) <= 0
    /\ \E k \in 1 .. Len(ms) : NormCent(ms[k], continuum, level) >= 0

\* np.min(means_norm) < (1. + level) < np.max(means_norm); a nan among
\* the means makes both ends nan and the comparison false
InRange(ms, continuum, level) ==
    /\ ~AnyNaN(ms, continuum)
    /\ \E k \in 1 .. Len(ms) : NormCent(ms[k], continuum, level) < 0
    /\ \E k \in 1 .. Len(ms) : NormCent(ms[k], continuum, level) > 0

\* bisect: f(a) and f(b) must have different signs
BisectRaises(cent) ==
    /\ cent[1] # 0
    /\ cent[Len(cent)] # 0
    /\ cent[1] = cent[Len(cent)]

\* The trajectory points interp1d(kind='nearest') can return at the root
\* bisect finds: an end where fn1 is zero, else a point where fn1 is zero
\* or a neighbour of a change of sign.  Which change of sign, and which of
\* its two neighbours, is decided by the last halving; all are kept.
RootPoints(cent) ==
    IF cent[1] = 0 THEN {1}
    ELSE IF cent[Len(cent)] = 0 THEN {Len(cent)}
    ELSE {k \in 1 .. Len(cent) :
            \/ cent[k] = 0
            \/ k < Len(cent) /\ cent[k] * cent[k + 1] < 0
            \/ k > 1 /\ cent[k - 1] * cent[k] < 0}

\* np.abs((1. + level) - means_norm[k]) over its denominator
NormDist(mean, continuum, level) ==
    [nan |-> NormKind(mean, continuum) = "nan",
     inf |-> NormKind(mean, continuum) # "finite",
     num |-> Abs(NormCentNum(mean, continuum, level)),
     den |-> mean.den]

\* a < b once nanargmin has replaced nan by inf
Closer(a, b) == ~a.inf /\ (b.inf \/ a.num * b.den < b.num * a.den)

\* np.nanargmin raises ValueError('All-NaN slice encountered')
NanArgminRaises(dists) == \A k \in 1 .. Len(dists) : dists[k].nan

\* np.nanargmin: the first index of the least distance
NanArgmin(dists) ==
    CHOOSE k \in 1 .. Len(dists) :
        /\ \A j \in 1 .. Len(dists) : ~Closer(dists[j], dists[k])
        /\ \A j \in 1 .. (k - 1) : Closer(dists[k], dists[j])

\* lev_cont - sigma_lower*lev_std and lev_cont + sigma_upper*lev_std
LevelBounds(mean, std) ==
    [nan |-> FALSE, P |-> mean.num, m |-> 1, v |-> std.var_num,
     n |-> mean.den]

\* Mutant: the level is cut at the upper multiplier on both sides.
LevelMaskUpperOnly(data, m, mean, std, sig) ==
    [ch \in DOMAIN m |->
        \/ m[ch]
        \/ Below(data[ch], LevelBounds(mean, std), SigmaUpper(sig))
        \/ Above(data[ch], LevelBounds(mean, std), SigmaUpper(sig))]

\* spec.mask[spec < lev_cont - sigma_lower*lev_std] = True
\* spec.mask[spec > lev_cont + sigma_upper*lev_std] = True
LevelMask(data, m, mean, std, sig) ==
    [ch \in DOMAIN m |->
        \/ m[ch]
        \/ Below(data[ch], LevelBounds(mean, std), SigmaLower(sig))
        \/ Above(data[ch], LevelBounds(mean, std), SigmaUpper(sig))]

\* chan_file.with_suffix(f'.{level}{chan_file.suffix}')
LevelFile(file, level) == <<file[1], level>>

\* The rest of one turn of the loop over levels once the trajectory point
\* `ind` is known: the level values, the mask, the channel file.
LevelDone(level, ind, said) ==
    /\ pc' = pc
    /\ lev' = lev + 1
    /\ log' = said
    /\ lev_cont' = means[ind]
    /\ lev_std' = stds[ind]
    /\ lev_mask' = LevelMask(spectrum, BasicMask(spectrum, edges, flagchans),
                             means[ind], stds[ind], sigma)
    /\ files' =
          IF chan_file # None
          THEN files \cup
                 {[name |-> LevelFile(chan_file, level),
                   text |-> CasaText(ClumpMasked(
                       LevelMask(spectrum,
                                 BasicMask(spectrum, edges, flagchans),
                                 means[ind], stds[ind], sigma)))]}
          ELSE files
    /\ UNCHANGED raised

LevelRaises(said) ==
    /\ pc' = "raised"
    /\ raised' = "ValueError"
    /\ log' = said
    /\ UNCHANGED <<lev, lev_cont, lev_std, lev_mask, files>>

\* One turn of `for level in levels` in reverse_levels (level_mode
\* 'nearest', afoli's default).  The continuum of a spectrum masked
\* everywhere is numpy's masked constant: no turn is modelled for it.
ReverseLevel ==
    /\ pc = "chans_done"
    /\ levels # None
    /\ lev <= Len(levels[1])
    /\ cont.den > 0
    /\ LET level == levels[1][lev]
           cent == [k \in 1 .. Len(means) |-> NormCent(means[k], cont, level)]
           dists == [k \in 1 .. Len(means) |-> NormDist(means[k], cont, level)]
           said == log \o <<"Value outside range!",
                            "Using nearest value instead">>
       IN  IF InRange(means, cont, level)
           THEN IF BisectRaises(cent) THEN LevelRaises(log)
                ELSE \E ind \in RootPoints(cent) : LevelDone(level, ind, log)
           ELSE IF NanArgminRaises(dists) THEN LevelRaises(said)
                ELSE LevelDone(level, NanArgmin(dists), said)
    /\ ran' = Append(ran, "basic_masking")
    /\ UNCHANGED <<line_flags, chan_file, levels, returned, encode_vars, basic_args,
                   clip_args, refine_args, mask, before, cont, cstd,
                   steps_vars>>

\* return filtered
AfoliReturn ==
    /\ pc = "chans_done"
    /\ IF levels = None THEN TRUE ELSE lev > Len(levels[1])
    /\ pc' = "returned"
    /\ returned' = mask
    /\ UNCHANGED <<line_flags, chan_file, levels, files, log, lev, lev_cont, lev_std,
                   lev_mask, encode_vars, basic_args, clip_args, refine_args,
                   mask, before, cont, cstd, steps_vars, raised, ran>>

AfoliFresh ==
    /\ files = {}
    /\ log = << >>
    /\ lev = 0
    /\ lev_cont = NoValue
    /\ lev_std = NoSpread
    /\ lev_mask = None
    /\ returned = None
    /\ line_flags = << >>

NoAfoli ==
    /\ chan_file = None
    /\ levels = None
    /\ AfoliFresh

(***************************************************************************)
(* basic_masking alone                                                     *)
(***************************************************************************)
InitBasic ==
    /\ pc = "start"
    /\ spectrum \in Arrays(BasicLen, {0, 1, NaN})
    /\ called_with = spectrum
    /\ edges \in 0 .. (BasicLen + 1)
    /\ flagchans \in FlagLists(BasicLen)
    /\ mask = None
    /\ Defaults
    /\ invalid_values \in {None, <<<< >>>>, <<<<0>>>>, <<<<1, 0>>>>}
    /\ Fresh
    /\ NoEncoding
    /\ NoAfoli

NextBasic == BasicMasking

SpecBasic == InitBasic /\ [][NextBasic]_vars

(***************************************************************************)
(* The refinement stages of find_continuum on any mask sigma_clip may      *)
(* return                                                                  *)
(***************************************************************************)
InitRefine ==
    /\ pc = "clip_done"
    /\ mask \in Arrays(RefineLen, BOOLEAN)
    /\ spectrum = [ch \in DOMAIN mask |-> 0]
    /\ called_with = spectrum
    /\ edges = 0
    /\ flagchans = None
    /\ censtat = "median"
    /\ sigma = DefaultSigma
    /\ niter = None
    /\ dilate \in 0 .. MaxDilate
    /\ min_width \in 0 .. MaxWidth
    /\ min_gap \in {None} \cup {<<g>> : g \in 0 .. MaxGap}
    /\ invalid_values = None
    /\ Fresh
    /\ NoEncoding
    /\ NoAfoli

NextRefine ==
    \/ DilateMask
    \/ FilterSmallBands
    \/ FilterConsecutive

SpecRefine == InitRefine /\ [][NextRefine]_vars

(***************************************************************************)
(* The width filter and the gap filter applied twice to any mask           *)
(***************************************************************************)
InitFilters ==
    /\ pc = "clip_done"
    /\ mask \in Arrays(RefineLen, BOOLEAN)
    /\ spectrum = [ch \in DOMAIN mask |-> 0]
    /\ called_with = spectrum
    /\ edges = 0
    /\ flagchans = None
    /\ censtat = "median"
    /\ sigma = DefaultSigma
    /\ niter = None
    /\ dilate = 0
    /\ min_width \in 1 .. MaxWidth
    /\ min_gap \in {<<g>> : g \in 2 .. MaxGap}
    /\ invalid_values = None
    /\ Fresh
    /\ NoEncoding
    /\ NoAfoli

NextFilters ==
    \/ DilateMask
    \/ FilterSmallBands
    \/ FilterConsecutive
    \/ FilterSmallBandsAgain
    \/ FilterConsecutiveAgain

SpecFilters == InitFilters /\ [][NextFilters]_vars

(***************************************************************************)
(* The dilation sub-step applied twice to any mask                         *)
(***************************************************************************)
InitDilate ==
    /\ pc = "clip_done"
    /\ mask \in Arrays(RefineLen, BOOLEAN)
    /\ spectrum = [ch \in DOMAIN mask |-> 0]
    /\ called_with = spectrum
    /\ edges = 0
    /\ flagchans = None
    /\ censtat = "median"
    /\ sigma = DefaultSigma
    /\ niter = None
    /\ dilate \in 1 .. MaxDilate
    /\ min_width = 0
    /\ min_gap = None
    /\ invalid_values = None
    /\ Fresh
    /\ NoEncoding
    /\ NoAfoli

NextDilate ==
    \/ DilateMask
    \/ DilateAgain

SpecDilate == InitDilate /\ [][NextDilate]_vars

(***************************************************************************)
(* find_continuum                                                          *)
(***************************************************************************)
Init ==
    /\ pc = "start"
    /\ spectrum \in Arrays(FindLen, {0, 1, NaN})
    /\ called_with = spectrum
    /\ edges \in {0, 1}
    /\ flagchans = None
    /\ censtat \in Censtats
    /\ sigma = DefaultSigma
    /\ niter \in {None, <<1>>}
    /\ dilate \in {0, 1}
    /\ min_width \in {0, 2}
    /\ min_gap \in {None, <<2>>}
    /\ mask = None
    /\ invalid_values = None
    /\ Fresh
    /\ NoEncoding
    /\ NoAfoli

Next ==
    \/ BasicMasking
    \/ FilterData
    \/ DilateMask
    \/ FilterSmallBands
    \/ FilterConsecutive
    \/ Continuum

Spec == Init /\ [][Next]_vars

(***************************************************************************)
(* get_sigma_clip_steps                                                    *)
(***************************************************************************)
InitSteps ==
    /\ pc = "start"
    /\ spectrum \in Arrays(StepsLen, {0, 1, 4, 5})
    /\ called_with = spectrum
    /\ edges = 0
    /\ flagchans = None
    /\ censtat \in Censtats
    /\ sigma \in Sigmas
    /\ niter = None
    /\ dilate = 0
    /\ min_width = 0
    /\ min_gap = None
    /\ mask = None
    /\ invalid_values = None
    /\ Fresh
    /\ NoEncoding
    /\ NoAfoli

NextSteps ==
    \/ BasicMasking
    \/ StepsInitial
    \/ StepsRun

SpecSteps == InitSteps /\ [][NextSteps]_vars

(***************************************************************************)
(* get_sigma_clip_steps on the spectra whose runs are redone one by one    *)
(***************************************************************************)
InitIndex ==
    /\ pc = "start"
    /\ spectrum \in Arrays(IndexLen, {0, 1, 4, 5})
    /\ called_with = spectrum
    /\ edges = 0
    /\ flagchans = None
    /\ censtat \in Censtats
    /\ sigma \in Sigmas
    /\ niter = None
    /\ dilate = 0
    /\ min_width = 0
    /\ min_gap = None
    /\ mask = None
    /\ invalid_values = None
    /\ Fresh
    /\ NoEncoding
    /\ NoAfoli

SpecIndex == InitIndex /\ [][NextSteps]_vars

(***************************************************************************)
(* The region encoder on any mask and frequency axis                       *)
(***************************************************************************)
\* a frequency axis of n channels: uniformly spaced, ascending or
\* descending, or with a growing spacing
Axes(n) ==
    {[ch \in Chans(n) |-> f0 + w * ch] :
        f0 \in AxisStarts, w \in ((-MaxSpacing) .. MaxSpacing) \ {0}}
    \cup {[ch \in Chans(n) |-> ch * ch]}

InitEncode ==
    /\ pc = "encode"
    /\ mask \in Arrays(EncodeLen, BOOLEAN)
    /\ spectrum = [ch \in DOMAIN mask |-> 0]
    /\ called_with = spectrum
    /\ edges = 0
    /\ flagchans = None
    /\ invalid_values = None
    /\ Defaults
    /\ Fresh
    /\ NoAfoli
    /\ slices = << >>
    /\ sep \in Separators
    /\ casa = << >>
    /\ freq \in Axes(Size(mask))
    /\ ranges = << >>

NextEncode ==
    \/ GroupChans
    \/ ChansToCasa
    \/ GetFreqFlags

SpecEncode == InitEncode /\ [][NextEncode]_vars

(***************************************************************************)
(* The channel string of a mask given back to basic_masking                *)
(***************************************************************************)
InitFlagText ==
    /\ pc = "encode"
    /\ mask \in Arrays(EncodeLen, BOOLEAN)
    /\ spectrum = [ch \in DOMAIN mask |-> 0]
    /\ called_with = spectrum
    /\ edges = 0
    /\ flagchans = None
    /\ invalid_values = None
    /\ Defaults
    /\ Fresh
    /\ NoAfoli
    /\ slices = << >>
    /\ sep = ";"
    /\ casa = << >>
    /\ freq = << >>
    /\ ranges = << >>

NextFlagText ==
    \/ GroupChans
    \/ ChansToCasa
    \/ BasicMaskingText

SpecFlagText == InitFlagText /\ [][NextFlagText]_vars

(***************************************************************************)
(* chans_to_casa on any list of slices                                     *)
(***************************************************************************)
\* the slices start:stop with 0 <= start < stop <= CasaChans
Slices == {s \in (0 .. CasaChans) \X (0 .. CasaChans) : s[1] < s[2]}

SliceLists == UNION {[1 .. k -> Slices] : k \in 0 .. MaxSlices}

InitCasa ==
    /\ pc = "grouped"
    /\ slices \in SliceLists
    /\ sep \in Separators
    /\ mask = None
    /\ spectrum = [ch \in Chans(1) |-> 0]
    /\ called_with = spectrum
    /\ edges = 0
    /\ flagchans = None
    /\ invalid_values = None
    /\ Defaults
    /\ Fresh
    /\ NoAfoli
    /\ casa = << >>
    /\ freq = << >>
    /\ ranges = << >>

NextCasa == ChansToCasa

SpecCasa == InitCasa /\ [][NextCasa]_vars

(***************************************************************************)
(* get_freq_flags on any mask and any frequency axis, of the length of     *)
(* the mask or not                                                         *)
(***************************************************************************)
InitFreq ==
    /\ pc = "encode"
    /\ mask \in Arrays(FreqLen, BOOLEAN)
    /\ spectrum = [ch \in DOMAIN mask |-> 0]
    /\ called_with = spectrum
    /\ edges = 0
    /\ flagchans = None
    /\ invalid_values = None
    /\ Defaults
    /\ Fresh
    /\ NoAfoli
    /\ slices = << >>
    /\ sep = ";"
    /\ casa = << >>
    /\ freq \in UNION {Axes(n) : n \in 1 .. (FreqLen + 1)}
    /\ ranges = << >>

NextFreq == GetFreqFlags

SpecFreq == InitFreq /\ [][NextFreq]_vars

(***************************************************************************)
(* afoli_iter_data on one image: a first run writes the flags file, a      *)
(* later run with resume=True loads it                                     *)
(***************************************************************************)
InitResume ==
    /\ pc = "encode"
    /\ mask \in Arrays(FreqLen, BOOLEAN)
    /\ spectrum = [ch \in DOMAIN mask |-> 0]
    /\ called_with = spectrum
    /\ edges = 0
    /\ flagchans = None
    /\ invalid_values = None
    /\ Defaults
    /\ Fresh
    /\ NoAfoli
    /\ slices = << >>
    /\ sep = ";"
    /\ casa = << >>
    /\ freq \in Axes(Size(mask))
    /\ ranges = << >>

NextResume ==
    \/ IterData
    \/ IterDataResume

SpecResume == InitResume /\ [][NextResume]_vars

(***************************************************************************)
(* afoli                                                                   *)
(***************************************************************************)
\* censtat: the three names afoli knows and one it does not
AfoliCenstats == Censtats \cup {"mode"}

\* sigma: one or two multipliers, none, or three
AfoliSigmas == Sigmas \cup {<< >>, <<<<1, 1>>, <<1, 1>>, <<1, 1>>>>}

\* levels: None, [0.0] or [0.1, 0.0]
Levels == {None, <<<<<<0, 1>>>>>>, <<<<<<1, 10>>, <<0, 1>>>>>>}

InitAfoli ==
    /\ pc = "afoli"
    /\ spectrum \in Arrays(AfoliLen, {0, 1, 4})
    /\ called_with = spectrum
    /\ edges \in {0, 1}
    /\ edges = 1 => Size(spectrum) >= 3
    /\ flagchans = None
    /\ censtat \in AfoliCenstats
    /\ sigma \in AfoliSigmas
    /\ niter = None
    /\ dilate = 0
    /\ min_width \in {0, 2}
    /\ min_gap = None
    /\ mask = None
    /\ invalid_values = None
    /\ Fresh
    /\ NoEncoding
    /\ chan_file \in {None, <<"chans">>}
    /\ levels \in Levels
    /\ AfoliFresh

NextAfoli ==
    \/ Afoli
    \/ BasicMasking
    \/ FilterData
    \/ DilateMask
    \/ FilterSmallBands
    \/ FilterConsecutive
    \/ Continuum
    \/ AfoliSteps
    \/ AfoliChans
    \/ ReverseLevel
    \/ AfoliReturn

SpecAfoli == InitAfoli /\ [][NextAfoli]_vars

(***************************************************************************)
(* afoli at small levels, on spectra with one low channel                  *)
(***************************************************************************)
\* levels: [0.01] or [0.1]
SmallLevels == {<<<<<<1, 100>>>>>>, <<<<<<1, 10>>>>>>}

InitLevels ==
    /\ pc = "afoli"
    /\ spectrum \in Arrays(AfoliLen, {0, 4, 5})
    /\ called_with = spectrum
    /\ edges = 0
    /\ flagchans = None
    /\ censtat \in Censtats
    /\ sigma \in Sigmas
    /\ niter = None
    /\ dilate = 0
    /\ min_width \in {0, 2}
    /\ min_gap = None
    /\ mask = None
    /\ invalid_values = None
    /\ Fresh
    /\ NoEncoding
    /\ chan_file = None
    /\ levels \in SmallLevels
    /\ AfoliFresh

SpecLevels == InitLevels /\ [][NextAfoli]_vars

(***************************************************************************)
(* Claims about basic_masking (checked under SpecBasic)                    *)
(***************************************************************************)
\* channel ch lies inside one of the explicit ranges, both ends inclusive
InExplicitRange(ch) ==
    \E k \in 1 .. Len(flagchans) :
        flagchans[k][1] <= ch /\ ch <= flagchans[k][2]

\* C2: with 0 <= edges < N and no sentinel values, basic_masking masks
\* channel ch if and only if the sample is non-finite, or ch < edges, or
\* ch >= N - edges, or ch lies in an explicit range ch1~ch2 (inclusive);
\* every other channel is left unmasked.
C2_BasicMaskExact ==
    pc = "basic_done" =>
        /\ DOMAIN mask = DOMAIN spectrum
        /\ \A ch \in DOMAIN spectrum :
              mask[ch] <=>
                  \/ spectrum[ch] = NaN
                  \/ ch < edges
                  \/ ch >= Size(spectrum) - edges
                  \/ InExplicitRange(ch)

\* A spectrum with edges masked, a channel masked only by an explicit range
\* and a channel left unmasked.
C2_Witness ==
    /\ pc = "basic_done"
    /\ edges > 0
    /\ \E ch \in DOMAIN spectrum :
          /\ mask[ch]
          /\ spectrum[ch] # NaN
          /\ ch >= edges
          /\ ch < Size(spectrum) - edges
    /\ \E ch \in DOMAIN spectrum : ~mask[ch]

\* C3: with edges >= N basic_masking raises ValueError, returns no masked
\* spectrum and leaves the caller's spectrum as it was.
C3_EdgesTooLarge ==
    (pc # "start" /\ edges >= Size(called_with)) =>
        /\ pc = "raised"
        /\ raised = "ValueError"
        /\ mask = None
        /\ spectrum = called_with

\* The boundary case edges = N, on a spectrum holding a non-finite sample.
C3_Witness ==
    /\ pc = "raised"
    /\ edges = Size(spectrum)
    /\ \E ch \in DOMAIN spectrum : spectrum[ch] = NaN

(***************************************************************************)
(* Claims about the refinement stages (checked under SpecRefine)           *)
(***************************************************************************)
\* the channels from a to b are all masked in m
AllMasked(m, a, b) == \A c \in a .. b : c \in DOMAIN m /\ m[c]

\* the width of the maximal masked band of m that holds the masked channel ch
BandWidth(m, ch) ==
    Cardinality({c \in DOMAIN m :
        IF c <= ch THEN AllMasked(m, c, ch) ELSE AllMasked(m, ch, c)})

\* what the claim says the width filter returns for the mask m
WidthFiltered(m, width) ==
    [ch \in DOMAIN m |-> m[ch] /\ BandWidth(m, ch) > width]

\* C4 as stated: for every mask, also an entirely masked one with
\* N <= min_width, the width filter unmasks exactly the bands of width
\* <= min_width; with min_width <= 0 the mask is unchanged.
C4_AsStated ==
    pc = "width_done" =>
        mask = IF min_width > 0 THEN WidthFiltered(before, min_width)
               ELSE before

\* C4 amended: the same for every mask with an unmasked channel; an entirely
\* masked mask is returned unchanged whatever min_width.
C4_WidthFilter ==
    pc = "width_done" =>
        mask = IF min_width > 0 /\ \E ch \in DOMAIN before : ~before[ch]
               THEN WidthFiltered(before, min_width)
               ELSE before

\* A narrow band is removed while a wider band stays.
C4_Witness ==
    /\ pc = "width_done"
    /\ min_width > 0
    /\ \E ch \in DOMAIN mask : before[ch] /\ ~mask[ch]
    /\ \E ch \in DOMAIN mask : mask[ch]

\* ch is unmasked in m and lies in an unmasked run, between two masked
\* channels, of at most gap channels
InSmallGap(m, ch, gap) ==
    /\ ~m[ch]
    /\ \E lo \in DOMAIN m : \E hi \in DOMAIN m :
          /\ lo < ch /\ ch < hi
          /\ m[lo] /\ m[hi]
          /\ \A c \in (lo + 1) .. (hi - 1) : ~m[c]
          /\ hi - lo - 1 <= gap

\* C5: with min_gap > 1 the gap filter returns the input mask plus every
\* unmasked run between two masked channels of length <= min_gap, the whole
\* run; longer runs and the runs before the first and after the last masked
\* channel stay unmasked; with min_gap absent or <= 1 the mask is unchanged.
C5_GapFilter ==
    pc = "gap_done" =>
        mask = IF min_gap # None /\ min_gap[1] > 1
               THEN [ch \in DOMAIN before |->
                        before[ch] \/ InSmallGap(before, ch, min_gap[1])]
               ELSE before

\* A gap is filled up to its last channel while the run after the last
\* masked channel stays unmasked.
C5_Witness ==
    /\ pc = "gap_done"
    /\ min_gap # None
    /\ \E ch \in DOMAIN mask :
          /\ ~before[ch] /\ mask[ch]
          /\ ch + 1 \in DOMAIN mask /\ before[ch + 1]
    /\ ~mask[Size(mask) - 1]

\* C6: with 0 <= dilate < N/2, channel j is masked after the dilation if and
\* only if a channel within dilate channels of it was masked before.
C6_Dilation ==
    pc = "dilate_done" =>
        /\ 2 * dilate < Size(before)
        /\ mask = [j \in DOMAIN before |->
                      \E k \in DOMAIN before :
                          /\ before[k]
                          /\ j - k <= dilate
                          /\ k - j <= dilate]

\* A band grows by two channels towards the middle and is clipped at the
\* end of the spectrum.
C6_Witness ==
    /\ pc = "dilate_done"
    /\ dilate = 2
    /\ before[0] /\ ~before[1] /\ ~before[2] /\ ~before[3]
    /\ mask[2] /\ ~mask[3]

(***************************************************************************)
(* Claims about find_continuum (checked under Spec)                        *)
(***************************************************************************)
\* f[0] + ... + f[k]
RECURSIVE TotalTo(_, _)
TotalTo(f, k) == IF k < 0 THEN 0 ELSE f[k] + TotalTo(f, k - 1)

\* C7 as stated: the continuum is the center statistic chosen by censtat that
\* the filter computed at its last iteration, the spread the standard
\* deviation of that iteration (wherever that center is a number).
C7_AsStated ==
    pc = "fc_done" =>
        LET r == SigmaClip(spectrum, BasicMask(spectrum, edges, flagchans),
                           sigma, censtat, niter)
            b == r.bounds
        IN  (r.niterations > 0 /\ ~b.nan) =>
                /\ cont.den > 0
                /\ cont.num * b.m * b.n = b.P * cont.den
                /\ cstd.var_num * b.n * b.n = b.v * cstd.den * cstd.den

\* C7 amended: whatever censtat, the continuum is the mean of the samples
\* left unmasked in the mask find_continuum returns (after the dilation,
\* the width filter and the gap filter), and the spread is the standard
\* deviation of those samples: with n such samples x, the mean is
\* (sum x)/n and n^2 times the variance is half the sum of (x_a - x_b)^2
\* over all pairs.
C7_ContinuumIsMean ==
    pc = "fc_done" =>
        LET top == Size(spectrum) - 1
            count == TotalTo([ch \in DOMAIN mask |->
                                 IF mask[ch] THEN 0 ELSE 1], top)
            total == TotalTo([ch \in DOMAIN mask |->
                                 IF mask[ch] THEN 0 ELSE spectrum[ch]], top)
            sqdiff(a, b) ==
                IF mask[a] \/ mask[b] THEN 0
                ELSE (spectrum[a] - spectrum[b]) * (spectrum[a] - spectrum[b])
            pairs == TotalTo([a \in DOMAIN mask |->
                                 TotalTo([b \in DOMAIN mask |-> sqdiff(a, b)],
                                         top)], top)
        IN  /\ cont = [num |-> total, den |-> count]
            /\ cstd.den = count
            /\ 2 * cstd.var_num = pairs

\* censtat = median, a channel masked, and the mean of the returned samples
\* differs from their median.
C7_Witness ==
    /\ pc = "fc_done"
    /\ censtat = "median"
    /\ cont.den > 0
    /\ 2 * cont.num # Median2(spectrum, Unmasked(mask)) * cont.den
    /\ cstd.var_num > 0
    /\ \E ch \in DOMAIN mask : mask[ch]

(***************************************************************************)
(* Claims about the Robust Iterative Filter and get_sigma_clip_steps       *)
(* (checked under SpecSteps)                                               *)
(***************************************************************************)
\* C1 as stated: every channel masked after iteration i-1 (the channels of
\* the Basic Masker before iteration 1) is still masked after iteration i.
C1_Monotone ==
    [][(pc = "steps" /\ pc' \in {"steps", "steps_done"}) =>
          \A ch \in DOMAIN filtered : filtered[ch] => filtered'[ch]]_vars

\* C8 as stated: the sweep never ends otherwise than by reaching an i whose
\* unmasked count equals the last recorded one, after at most (initial
\* unmasked count + 1) runs of the filter.
C8_Terminates ==
    pc \in {"steps", "steps_done", "raised"} =>
        /\ pc # "raised"
        /\ raised = ""
        /\ i <= npoints[1] + 1

\* C9 as stated: the last recorded point is the converged fit: its count,
\* mean and standard deviation are those of the filter run with no
\* iteration limit.
C9_LastIsConverged ==
    pc = "steps_done" =>
        LET conv == SigmaClip(spectrum, mask, sigma, censtat, None)
            last == Len(npoints)
        IN  /\ ~conv.raised
            /\ npoints[last] = Cardinality(Unmasked(conv.mask))
            /\ means[last] = MaMean(spectrum, conv.mask)
            /\ stds[last] = MaStd(spectrum, conv.mask)

\* C10 as stated: the recorded counts never increase and the four sequences
\* have the same length.
C10_NonIncreasing ==
    pc \in {"steps", "steps_done"} =>
        /\ \A k \in 1 .. (Len(npoints) - 1) : npoints[k + 1] <= npoints[k]
        /\ Len(medians) = Len(npoints)
        /\ Len(means) = Len(npoints)
        /\ Len(stds) = Len(npoints)

(***************************************************************************)
(* Claims about the region encoder (checked under SpecEncode and SpecCasa) *)
(***************************************************************************)
\* the mask of n channels in which exactly the channels start..stop-1 of
\* each range are masked
FromRanges(slcs, n) ==
    [ch \in Chans(n) |->
        \E k \in 1 .. Len(slcs) : slcs[k][1] <= ch /\ ch < slcs[k][2]]

\* C11: masking exactly the channels start..stop-1 of every range that
\* group_chans returns, in an otherwise unmasked array, gives the original
\* mask back, for every mask (all-false and all-true included).
C11_RoundTrip ==
    pc \in {"grouped", "casa_done"} =>
        FromRanges(slices, Size(mask)) = mask

\* Two bands, one at each end of the mask, came back from group_chans.
C11_Witness ==
    /\ pc = "grouped"
    /\ Len(slices) = 2
    /\ mask[0]
    /\ mask[Size(mask) - 1]
    /\ \E ch \in DOMAIN mask : ~mask[ch]

\* C12: group_chans returns maximal masked bands in strictly ascending
\* order: no range holds an unmasked channel, no range can be extended,
\* consecutive ranges have an unmasked channel between them, and nothing is
\* returned when no channel is masked.
C12_MaximalBands ==
    pc \in {"grouped", "casa_done"} =>
        /\ \A k \in 1 .. Len(slices) :
              /\ 0 <= slices[k][1]
              /\ slices[k][1] < slices[k][2]
              /\ slices[k][2] <= Size(mask)
              /\ \A ch \in slices[k][1] .. (slices[k][2] - 1) : mask[ch]
              /\ slices[k][1] = 0 \/ ~mask[slices[k][1] - 1]
              /\ slices[k][2] = Size(mask) \/ ~mask[slices[k][2]]
              /\ k < Len(slices) => slices[k][2] < slices[k + 1][1]
        /\ (\A ch \in DOMAIN mask : ~mask[ch]) => slices = << >>

\* Three bands, the middle one of a single channel.
C12_Witness ==
    /\ pc = "grouped"
    /\ Len(slices) = 3
    /\ slices[2][2] = slices[2][1] + 1
    /\ slices[3][2] < Size(mask)

\* a decimal numeral without sign or leading zero
IsNumeral(str) ==
    /\ Len(str) >= 1
    /\ \A k \in 1 .. Len(str) : \E d \in 1 .. 10 : str[k] = Digits[d]
    /\ Len(str) = 1 \/ str[1] # "0"

\* the piece renders the range slc: its channel alone, or first~last
Renders(piece, slc) ==
    IF slc[2] - slc[1] = 1
    THEN IsNumeral(piece) /\ Value(piece) = slc[1]
    ELSE LET ends == Split(piece, "~")
         IN  /\ Len(ends) = 2
             /\ IsNumeral(ends[1]) /\ Value(ends[1]) = slc[1]
             /\ IsNumeral(ends[2]) /\ Value(ends[2]) = slc[2] - 1

\* C13: chans_to_casa writes a one-channel range as its channel, a longer
\* range as start~end with end its last channel, in input order, joined by
\* the separator with none leading or trailing; no range gives "".
C13_CasaFormat ==
    pc = "casa_done" =>
        IF Len(slices) = 0 THEN casa = << >>
        ELSE LET pieces == Split(casa, sep)
             IN  /\ Len(pieces) = Len(slices)
                 /\ \A k \in 1 .. Len(slices) : Renders(pieces[k], slices[k])

\* The ranges 3..3 and 6..8 gave "3;6~8".
C13_Witness ==
    /\ pc = "casa_done"
    /\ slices = <<<<3, 4>>, <<6, 9>>>>
    /\ sep = ";"
    /\ casa = <<"3", ";", "6", "~", "8">>

\* the first channels of the maximal masked bands, ascending
BandStarts(m) ==
    Ascending({ch \in DOMAIN m : m[ch] /\ (ch = 0 \/ ~m[ch - 1])})

\* the last channel of the band that starts at channel s
BandEnd(m, s) ==
    CHOOSE e \in DOMAIN m :
        /\ e >= s
        /\ \A c \in s .. e : m[c]
        /\ e = Size(m) - 1 \/ ~m[e + 1]

\* the axis has the same spacing between any two neighbouring channels
Uniform(fr) ==
    \A ch \in DOMAIN fr :
        ch >= 2 => fr[ch] - fr[ch - 1] = fr[ch - 1] - fr[ch - 2]

\* C14: on a uniformly spaced axis of spacing w, ascending or descending,
\* get_freq_flags returns one range per maximal masked band, in band order:
\* (min(freq[start], freq[end]) - w/2, max(freq[start], freq[end]) + w/2),
\* the lower frequency first (every frequency is kept as twice its value).
C14_FreqRanges ==
    (pc = "freq_done" /\ Uniform(freq)) =>
        LET starts == BandStarts(mask)
            n == Size(freq)
            w == Abs(freq[n - 1] - freq[n - 2])
        IN  /\ Len(ranges) = Len(starts)
            /\ \A k \in 1 .. Len(starts) :
                  LET first == freq[starts[k]]
                      last == freq[BandEnd(mask, starts[k])]
                      lower == IF first <= last THEN first ELSE last
                      upper == IF first <= last THEN last ELSE first
                  IN  /\ ranges[k] = <<2 * lower - w, 2 * upper + w>>
                      /\ ranges[k][1] < ranges[k][2]

\* A descending axis with two bands, one of them several channels wide.
C14_Witness ==
    /\ pc = "freq_done"
    /\ Uniform(freq)
    /\ freq[0] > freq[1]
    /\ Len(ranges) = 2
    /\ \E k \in 1 .. 2 : slices[k][2] - slices[k][1] >= 2

(***************************************************************************)
(* Claims about sentinel values (checked under SpecBasic)                  *)
(***************************************************************************)
\* C18 as stated: given a non-empty list of sentinel values (and edges < N),
\* basic_masking returns a masked spectrum in which every channel whose
\* value equals one of them is masked, besides the non-finite, edge and
\* explicit-range channels.
C18_SentinelsMasked ==
    (/\ pc # "start"
     /\ edges < Size(spectrum)
     /\ invalid_values # None
     /\ Len(invalid_values[1]) > 0) =>
        /\ pc = "basic_done"
        /\ \A ch \in DOMAIN spectrum :
              \/ \E k \in 1 .. Len(invalid_values[1]) :
                     spectrum[ch] = invalid_values[1][k]
              \/ spectrum[ch] = NaN
              \/ ch < edges
              \/ ch >= Size(spectrum) - edges
              \/ InExplicitRange(ch)
              => mask[ch]

(***************************************************************************)
(* Claims about the order of the range checks (checked under Spec)         *)
(***************************************************************************)
\* C20 as stated: with edges >= N or dilate >= N/2 the range error is raised
\* before any masking: when it is raised neither the Basic Masker nor the
\* Robust Iterative Filter has run on the spectrum.
C20_RaisedBeforeMasking ==
    [][((BasicMasking \/ DilateMask) /\ raised' = "ValueError") =>
          ran' = << >>]_vars

(***************************************************************************)
(* Claims about afoli and reverse_levels (checked under SpecAfoli)         *)
(***************************************************************************)
\* C19: once afoli has acted on a censtat outside median, mean and
\* linregress, or on a sigma of neither one nor two values, it has raised
\* (NotImplementedError for the name, ValueError for the sigma), and no
\* masking stage has run, no mask exists, no file has been written and no
\* mask has been returned.
C19_FailsImmediately ==
    (/\ pc # "afoli"
     /\ \/ censtat \notin {"median", "mean", "linregress"}
        \/ Len(sigma) \notin {1, 2}) =>
        /\ pc = "raised"
        /\ raised = IF censtat \notin {"median", "mean", "linregress"}
                    THEN "NotImplementedError" ELSE "ValueError"
        /\ ran = << >>
        /\ mask = None
        /\ files = {}
        /\ returned = None

C19_Witness ==
    /\ pc = "raised"
    /\ raised = "ValueError"
    /\ censtat = "linregress"
    /\ Len(sigma) = 3
    /\ chan_file # None
    /\ ran = << >>

\* 1 + l lies strictly between the least and the greatest of the
\* normalized means (a comparison with nan is false)
StrictlyBetween(level) ==
    /\ \A k \in 1 .. Len(means) : NormKind(means[k], cont) # "nan"
    /\ \E k \in 1 .. Len(means) : NormCent(means[k], cont, level) < 0
    /\ \E k \in 1 .. Len(means) : NormCent(means[k], cont, level) > 0

\* C15: a turn of reverse_levels for a level l with 1 + l not strictly
\* between the least and the greatest normalized mean raises no error,
\* leaves a level mask and logs 'Value outside range!' and 'Using nearest
\* value instead'; a turn for a level inside the range logs neither.
C15_FallbackObservable ==
    [][ReverseLevel =>
         IF StrictlyBetween(levels[1][lev])
         THEN log' = log
         ELSE /\ pc' # "raised"
              /\ raised' = ""
              /\ lev_mask' # None
              /\ log' = log \o <<"Value outside range!",
                                 "Using nearest value instead">>]_vars

\* x < lev_cont - lower * lev_std, for lev_cont = num/den, lev_std =
\* sqrt(var_num)/den and lower = lo[1]/lo[2]
BelowLevel(x, lo) ==
    /\ x * lev_cont.den < lev_cont.num
    /\ (lo[2] * (lev_cont.num - x * lev_cont.den))
          * (lo[2] * (lev_cont.num - x * lev_cont.den))
         > lo[1] * lo[1] * lev_std.var_num

\* x > lev_cont + upper * lev_std
AboveLevel(x, up) ==
    /\ x * lev_cont.den > lev_cont.num
    /\ (up[2] * (x * lev_cont.den - lev_cont.num))
          * (up[2] * (x * lev_cont.den - lev_cont.num))
         > up[1] * up[1] * lev_std.var_num

\* C16: the mask of a level is the mask of basic_masking on the caller's
\* spectrum plus exactly the channels below lev_cont - sigma_lower*lev_std
\* or above lev_cont + sigma_upper*lev_std, with the multipliers of the
\* call (the one value for both when sigma has one); (lev_cont, lev_std)
\* is a point of the trajectory, and no refinement stage has touched it.
C16_LevelMask ==
    lev_mask # None =>
        /\ DOMAIN lev_mask = DOMAIN spectrum
        /\ lev_std.den = lev_cont.den
        /\ \E k \in 1 .. Len(means) :
              lev_cont = means[k] /\ lev_std = stds[k]
        /\ \A ch \in DOMAIN spectrum :
              lev_mask[ch] <=>
                 \/ BasicMask(spectrum, edges, flagchans)[ch]
                 \/ BelowLevel(spectrum[ch], sigma[1])
                 \/ AboveLevel(spectrum[ch], sigma[Len(sigma)])

C16_Witness ==
    /\ lev_mask # None
    /\ Len(sigma) = 2
    /\ min_width = 2
    /\ lev_mask # mask
    /\ \E ch \in DOMAIN spectrum :
          lev_mask[ch] /\ ~BasicMask(spectrum, edges, flagchans)[ch]
    /\ \E ch \in DOMAIN spectrum : ~lev_mask[ch]

\* C17: with levels containing 0, niter absent, dilate = 0, min_width = 0
\* and min_gap absent, once reverse_levels has processed level 0 its
\* lev_cont is the continuum find_continuum returned and its mask is the
\* mask find_continuum returned, whatever the censtat.
C17_LevelZero ==
    (/\ pc \in {"chans_done", "returned"}
     /\ niter = None
     /\ dilate = 0
     /\ min_width = 0
     /\ min_gap = None
     /\ levels # None
     /\ lev >= 2
     /\ levels[1][lev - 1] = <<0, 1>>) =>
        /\ lev_cont.num * cont.den = cont.num * lev_cont.den
        /\ lev_mask = mask

(***************************************************************************)
(* Claims about the range check of the dilation (checked under Spec)       *)
(***************************************************************************)
\* The range check taken alone: it raises exactly when dilate >= N/2, and
\* then no masked spectrum, continuum or spread is left.
DilateCheckExact ==
    [][DilateMask =>
         /\ (pc' = "raised") <=> (2 * dilate >= Size(spectrum))
         /\ pc' = "raised" =>
               /\ raised' = "ValueError"
               /\ mask' = None
               /\ cont' = NoValue
               /\ cstd' = NoSpread]_vars

\* C21: with valid edges, a call of find_continuum on N channels ends in
\* ValueError if and only if dilate >= N/2 (so dilate = 0 never fails, an
\* odd N = 2m+1 accepts dilate = m and an even N = 2m rejects it), and a
\* failed call leaves no masked spectrum, continuum or spread.
C21_FailsIffDilateTooLarge ==
    (/\ edges < Size(spectrum)
     /\ pc \in {"raised", "fc_done"}) =>
        /\ (pc = "raised" /\ raised = "ValueError")
              <=> (2 * dilate >= Size(spectrum))
        /\ pc = "raised" =>
              /\ mask = None
              /\ cont = NoValue
              /\ cstd = NoSpread

(***************************************************************************)
(* Claims about get_freq_flags on an axis of another length (checked under *)
(* SpecFreq)                                                               *)
(***************************************************************************)
\* C22: whatever the mask, get_freq_flags given a frequency axis shorter
\* or longer than the masked spectrum ends in an error and returns no
\* range.
C22_LengthMismatchRaises ==
    (pc # "encode" /\ Size(freq) # Size(mask)) =>
        /\ pc = "raised"
        /\ ranges = << >>

(***************************************************************************)
(* Claims about the dilation applied twice (checked under SpecDilate)      *)
(***************************************************************************)
\* C23 as stated: dilating the dilated mask again with the same dilate > 0
\* leaves it unchanged.
C23_AsStated ==
    (pc = "dilated_again" /\ dilate > 0) => mask = before

\* C23 amended: dilating the dilated mask again with the same dilate > 0
\* masks exactly the channels within dilate channels of a channel of the
\* dilated mask; it leaves the dilated mask unchanged only when that mask
\* has no masked channel or no unmasked channel.
C23_DilationGrows ==
    (pc = "dilated_again" /\ dilate > 0) =>
        /\ mask = [j \in DOMAIN before |->
                      \E k \in DOMAIN before :
                          /\ before[k]
                          /\ j - k <= dilate
                          /\ k - j <= dilate]
        /\ mask = before <=>
              \/ \A ch \in DOMAIN before : ~before[ch]
              \/ \A ch \in DOMAIN before : before[ch]

\* A band of a dilated mask grows by two more channels on its free side.
C23_Witness ==
    /\ pc = "dilated_again"
    /\ dilate = 2
    /\ Size(mask) = 6
    /\ before[0] /\ before[1] /\ before[2] /\ ~before[3] /\ ~before[4]
    /\ mask[3] /\ mask[4] /\ ~mask[5]

(***************************************************************************)
(* Claims about the basic mask in the returned mask (checked under Spec)   *)
(***************************************************************************)
\* C24: every channel masked by basic_masking (a non-finite sample, one of
\* the first or last `edges` channels, a channel of an explicit range) is
\* masked in the mask find_continuum returns, whatever dilate, min_width
\* and min_gap, so that no non-finite sample is among the samples of the
\* continuum.
C24_BasicMaskKept ==
    pc = "fc_done" =>
        /\ \A ch \in DOMAIN spectrum :
              BasicMask(spectrum, edges, flagchans)[ch] => mask[ch]
        /\ \A ch \in DOMAIN spectrum : spectrum[ch] = NaN => mask[ch]

(***************************************************************************)
(* Claims about the bisection of reverse_levels (checked under SpecLevels) *)
(***************************************************************************)
\* C25: on a trajectory of two points or more a turn of reverse_levels
\* raises no error and leaves the mask of its level; whenever 1 + l lies
\* strictly between the least and the greatest normalized mean, the
\* normalized means at the first and at the last index, less 1 + l, do
\* not have the same strict sign.
C25_BracketValid ==
    [][(ReverseLevel /\ Len(means) >= 2) =>
         /\ pc' # "raised"
         /\ raised' = ""
         /\ lev_mask' # None
         /\ StrictlyBetween(levels[1][lev]) =>
               LET first == NormCent(means[1], cont, levels[1][lev])
                   last == NormCent(means[Len(means)], cont, levels[1][lev])
               IN  ~(first > 0 /\ last > 0) /\ ~(first < 0 /\ last < 0)]_vars

(***************************************************************************)
(* Claims about the indexing of the trajectory (checked under SpecIndex)   *)
(***************************************************************************)
\* the point recorded at position k is that of the run with maxiters = it
PointOfRun(k, it) ==
    LET r == SigmaClip(spectrum, mask, sigma, censtat, <<it>>)
    IN  /\ ~r.raised
        /\ npoints[k] = Cardinality(Unmasked(r.mask))
        /\ medians[k] = MaMedian(spectrum, r.mask)
        /\ means[k] = MaMean(spectrum, r.mask)
        /\ stds[k] = MaStd(spectrum, r.mask)

\* C26 as stated: the first entry of the trajectory is the result of one
\* iteration of the filter and entry number i that of the run with
\* maxiters = i.
C26_AsStated ==
    pc = "steps_done" =>
        \A k \in 1 .. Len(npoints) : PointOfRun(k, k)

\* C26 amended: the first entry of the trajectory describes the spectrum
\* before any clipping (the mask of basic_masking alone), and the entry
\* that follows i others is the result of the run with maxiters = i: the
\* trajectory is indexed by iteration count from 0.
C26_IndexedFromZero ==
    pc \in {"steps", "steps_done"} =>
        /\ npoints[1] = Cardinality(Unmasked(mask))
        /\ medians[1] = MaMedian(spectrum, mask)
        /\ means[1] = MaMean(spectrum, mask)
        /\ stds[1] = MaStd(spectrum, mask)
        /\ \A k \in 2 .. Len(npoints) : PointOfRun(k, k - 1)
        /\ i = Len(npoints)

\* Three entries: the spectrum before clipping, then two runs that each
\* leave fewer channels.
C26_Witness ==
    /\ pc = "steps_done"
    /\ Len(npoints) = 3
    /\ npoints[1] = Size(spectrum)
    /\ npoints[2] < npoints[1]
    /\ npoints[3] < npoints[2]

(***************************************************************************)
(* Claims about the width and gap filters (checked under SpecFilters)      *)
(***************************************************************************)
\* the maximal masked bands of m, each as <<first, last>>
Bands(m) ==
    {b \in (DOMAIN m) \X (DOMAIN m) :
        /\ b[1] <= b[2]
        /\ \A ch \in b[1] .. b[2] : m[ch]
        /\ (b[1] - 1 \in DOMAIN m => ~m[b[1] - 1])
        /\ (b[2] + 1 \in DOMAIN m => ~m[b[2] + 1])}

\* the unmasked runs of m that lie between two masked channels
InnerGaps(m) ==
    {g \in (DOMAIN m) \X (DOMAIN m) :
        /\ g[1] <= g[2]
        /\ \A ch \in g[1] .. g[2] : ~m[ch]
        /\ g[1] - 1 \in DOMAIN m /\ m[g[1] - 1]
        /\ g[2] + 1 \in DOMAIN m /\ m[g[2] + 1]}

\* C27: applying the minimum-width filter and then the minimum-gap filter
\* a second time leaves the mask they produced unchanged; after the two
\* filters every masked band is wider than min_width unless the whole
\* spectrum is masked, and every unmasked run between two masked channels
\* is longer than min_gap.
C27_FiltersIdempotent ==
    /\ pc = "gap_again" => mask = before
    /\ pc = "gap_done" =>
          /\ (\A ch \in DOMAIN mask : mask[ch]) \/ (\A b \in Bands(mask) : b[2] - b[1] + 1 > min_width)
          /\ \A g \in InnerGaps(mask) : g[2] - g[1] + 1 > min_gap[1]

\* The second pass has been applied to a mask that keeps a band of three
\* channels or more and an unmasked channel.
C27_Witness ==
    /\ pc = "gap_again"
    /\ \E ch \in DOMAIN mask : ~mask[ch]
    /\ \E ch \in DOMAIN mask : mask[ch]
    /\ \E ch \in DOMAIN mask :
          /\ ch + 1 \in DOMAIN mask /\ ch - 1 \in DOMAIN mask
          /\ mask[ch - 1] /\ mask[ch] /\ mask[ch + 1]

(***************************************************************************)
(* Claims about the edge count (checked under SpecBasic)                   *)
(***************************************************************************)
\* C28 as stated: whenever basic_masking accepts its edge count
\* (0 <= edges < N), with no non-finite samples, no explicit ranges and no
\* sentinel values, at least one channel of the returned spectrum is
\* unmasked.
C28_EdgesLeaveAChannel ==
    (/\ pc # "start"
     /\ edges < Size(spectrum)
     /\ \A ch \in DOMAIN spectrum : spectrum[ch] # NaN
     /\ flagchans = None
     /\ invalid_values = None) =>
        /\ pc = "basic_done"
        /\ \E ch \in DOMAIN spectrum : ~mask[ch]

(***************************************************************************)
(* Claims about the channel string as flagchans (checked under             *)
(* SpecFlagText)                                                           *)
(***************************************************************************)
\* C29 as stated: the string chans_to_casa produces (with the default ';')
\* for a non-empty set of masked bands is accepted by basic_masking as its
\* flagchans with default settings, and masks exactly the channels the
\* string encodes.
C29_StringAccepted ==
    (/\ pc \in {"raised", "basic_done"}
     /\ \E ch \in DOMAIN before : before[ch]) =>
        /\ pc = "basic_done"
        /\ mask = before

(***************************************************************************)
(* Claims about resuming from the flags file (checked under SpecResume)    *)
(***************************************************************************)
\* C30 as stated: every list of ranges a run writes with write_casa_freqs,
\* the empty list included, is loaded by a later run with resume=True
\* without error, with the same number of ranges in the same order, each
\* with its lower bound first and equal to the range that was written.
C30_ResumeRoundTrip ==
    /\ ~(pc = "raised" /\ files # {})
    /\ pc = "resumed" =>
          /\ Len(line_flags) = Len(ranges)
          /\ \A k \in 1 .. Len(ranges) :
                /\ line_flags[k][1] = ranges[k][1]
                /\ line_flags[k][2] = ranges[k][2]
                /\ line_flags[k][3] = "GHz"
                /\ line_flags[k][1] <= line_flags[k][2]

\* The part of C30 that holds: a non-empty list of ranges is loaded without
\* error as it was written.
ResumeNonEmpty ==
    (pc \in {"raised", "resumed"} /\ files # {} /\ Len(ranges) > 0) =>
        /\ pc = "resumed"
        /\ Len(line_flags) = Len(ranges)
        /\ \A k \in 1 .. Len(ranges) :
              /\ line_flags[k][1] = ranges[k][1]
              /\ line_flags[k][2] = ranges[k][2]
              /\ line_flags[k][3] = "GHz"
              /\ line_flags[k][1] <= line_flags[k][2]

====
